---------------------------- MODULE Spec2Model ----------------------------
(***************************************************************************)
(* Model of the notebook "Modern Portfolio Theory.ipynb".                  *)
(*                                                                         *)
(* The kernel namespace is the state; every code cell is one action.       *)
(*   Spec     part 1 of the notebook ("Handling the Data"): the price      *)
(*            table, the return series and the hand-computed estimates,    *)
(*            computed in exact rational arithmetic with pandas' NaN rules. *)
(*   SpecOpt  part 2 ("Portfolio Optimization"): the EfficientFrontier      *)
(*            instance, the two optimisation cells and the equal-weight     *)
(*            statistics, over estimates (mu, Sigma) drawn from bounded     *)
(*            sets of rationals.                                            *)
(*                                                                         *)
(* Reals are kept exact: a float is a record [k, n, d] (a normalised       *)
(* fraction, or NaN / +inf / -inf as IEEE-754 produces them); a square     *)
(* root is kept as its radicand and a fractional power as base and         *)
(* exponent, so that equalities and orderings are decided exactly.         *)
(***************************************************************************)
EXTENDS Integers, Sequences, FiniteSets, TLC

\* ------------------------------------------------------------------ bounds
MaxRows == 3
MaxPrice == 2
MaxMu == 2
MaxCov == 2
GridK == 2

\* The first two tickers of the notebook's universe; AMZN is the column the
\* notebook reads the table size from.
Universe == <<"AMZN", "AXP">>
N == Len(Universe)
Assets == 1..N
AMZN == 1

\* Trading days per year, the "frequency" of the library's estimators.
Frequency == 252

\* ------------------------------------------------------- exact float values
RECURSIVE Gcd(_, _)
Gcd(a, b) == IF b = 0 THEN a ELSE Gcd(b, a % b)

Abs(x) == IF x < 0 THEN -x ELSE x

\* The fraction n/d (d # 0) in lowest terms with a positive denominator.
Num(n, d) ==
    LET g == Gcd(Abs(n), Abs(d))
        s == IF d < 0 THEN -1 ELSE 1
    IN  [k |-> "num", n |-> s * (n \div g), d |-> s * (d \div g)]

NaN == [k |-> "nan", n |-> 0, d |-> 1]
PInf == [k |-> "inf", n |-> 0, d |-> 1]
NInf == [k |-> "ninf", n |-> 0, d |-> 1]
Zero == Num(0, 1)
One == Num(1, 1)

IsNum(x) == x.k = "num"
IsNaN(x) == x.k = "nan"

\* IEEE-754 arithmetic on the values the notebook produces: NaN propagates,
\* a division by zero gives +-inf (or NaN for 0/0).  Fractions are combined
\* over the least common denominator.
FAdd(x, y) ==
    IF IsNum(x) /\ IsNum(y)
    THEN LET g == Gcd(x.d, y.d)
         IN  Num(x.n * (y.d \div g) + y.n * (x.d \div g), x.d * (y.d \div g))
    ELSE NaN
FSub(x, y) ==
    IF IsNum(x) /\ IsNum(y)
    THEN LET g == Gcd(x.d, y.d)
         IN  Num(x.n * (y.d \div g) - y.n * (x.d \div g), x.d * (y.d \div g))
    ELSE NaN
FMul(x, y) ==
    IF IsNum(x) /\ IsNum(y)
    THEN LET g == Gcd(Abs(x.n), y.d)
             h == Gcd(Abs(y.n), x.d)
         IN  Num((x.n \div g) * (y.n \div h), (x.d \div h) * (y.d \div g))
    ELSE NaN
FDiv(x, y) ==
    IF ~(IsNum(x) /\ IsNum(y)) THEN NaN
    ELSE IF y.n # 0 THEN FMul(x, Num(y.d, y.n))
    ELSE IF x.n > 0 THEN PInf
    ELSE IF x.n < 0 THEN NInf
    ELSE NaN

\* Orderings of two fractions.
FLe(x, y) ==
    LET g == Gcd(x.d, y.d) IN x.n * (y.d \div g) <= y.n * (x.d \div g)
FLt(x, y) ==
    LET g == Gcd(x.d, y.d) IN x.n * (y.d \div g) < y.n * (x.d \div g)

RECURSIVE SumOver(_, _)
\* The sum of f[i] over the finite set S of indices.
SumOver(f, S) ==
    IF S = {} THEN Zero
    ELSE LET i == CHOOSE j \in S : TRUE
         IN  FAdd(f[i], SumOver(f, S \ {i}))

RECURSIVE ProdOver(_, _)
\* The product of f[i] over the finite set S of indices.
ProdOver(f, S) ==
    IF S = {} THEN One
    ELSE LET i == CHOOSE j \in S : TRUE
         IN  FMul(f[i], ProdOver(f, S \ {i}))

\* base ** exp - 1, kept as base and exponent (the power is irrational in
\* general).  numpy gives 1.0 ** x = 1.0 for every x, inf and NaN included.
PowMinus1(base, exp) == [base |-> base, exp |-> exp]

\* The sum over the assets of w[i] * (base[i] ** exp[i] - 1), kept as its
\* terms.
WeightedPowers(p, w) == [i \in Assets |-> [coef |-> w[i], of |-> p[i]]]

\* Two such values over the same base denote the same real number.
SamePower(p, q) ==
    /\ p.base = q.base
    /\ \/ p.base = One
       \/ p.exp = q.exp

\* --------------------------------------------------------- pandas operators
\* A column is a sequence of floats, NaN where the price is absent.
Rows(col) == 1..Len(col)
Valid(col) == {t \in Rows(col) : ~IsNaN(col[t])}

\* Series.size: the number of rows, NaN rows included.
Size(col) == Len(col)
\* Series.count(): the number of non-NaN rows.
Count(col) == Cardinality(Valid(col))

\* DataFrame.pct_change(): row t is p[t]/p[t-1] - 1, NaN in the first row and
\* wherever one of the two prices is absent.
PctChange(col) ==
    [t \in Rows(col) |->
        IF t = 1 THEN NaN ELSE FSub(FDiv(col[t], col[t - 1]), One)]

\* (1 + returns).prod(): NaN rows are skipped, the empty product is 1.
ProdOnePlus(rcol) ==
    ProdOver([t \in Rows(rcol) |-> FAdd(One, rcol[t])], Valid(rcol))

\* DataFrame.cov(): pairwise-complete sample covariance with the n - 1
\* denominator; NaN with fewer than two complete rows.
Cov(x, y) ==
    LET both == Valid(x) \cap Valid(y)
        n == Cardinality(both)
        mx == FDiv(SumOver(x, both), Num(n, 1))
        my == FDiv(SumOver(y, both), Num(n, 1))
        dev == [t \in both |-> FMul(FSub(x[t], mx), FSub(y[t], my))]
    IN  IF n < 2 THEN NaN ELSE FDiv(SumOver(dev, both), Num(n - 1, 1))

\* np.dot of two vectors over the assets.
Dot(u, v) == SumOver([i \in Assets |-> FMul(u[i], v[i])], Assets)
\* np.dot of a matrix and a vector.
MatVec(m, v) == [i \in Assets |-> Dot(m[i], v)]

\* A vector and a matrix of the right shape with no value in them.
NoVector == [i \in Assets |-> NaN]
NoMatrix == [i \in Assets |-> [j \in Assets |-> NaN]]

\* ------------------------------------------------------- the notebook's code
\* np.full(len(universe), 1/len(universe))
EqualWeights == [i \in Assets |-> Num(1, N)]

\* returns = df.pct_change()
ReturnsOf(table) == [i \in Assets |-> PctChange(table[i])]

\* The annualisation exponent of the notebook:
\* returns['AMZN'].size / 3 / returns.count()
HandExponent(rets, i) ==
    FDiv(FDiv(Num(Size(rets[AMZN]), 1), Num(3, 1)), Num(Count(rets[i]), 1))

\* compound_returns = (1+returns).prod() ** (size/3/count) - 1
CompoundReturns(rets) ==
    [i \in Assets |-> PowMinus1(ProdOnePlus(rets[i]), HandExponent(rets, i))]

\* annual_cov_mat = returns.cov() * returns['AMZN'].size / 3
AnnualCovMat(rets) ==
    [i \in Assets |-> [j \in Assets |->
        FDiv(FMul(Cov(rets[i], rets[j]), Num(Size(rets[AMZN]), 1)), Num(3, 1))]]

\* A variance that keeps the diagonal terms only.
PortVarDiagonal(w, cov) ==
    SumOver([i \in Assets |-> FMul(FMul(w[i], w[i]), cov[i][i])], Assets)

\* np.dot(weights.T, np.dot(annual_cov_mat, weights))
PortVar(w, cov) == Dot(w, MatVec(cov, w))

\* expected_returns.mean_historical_return(df): geometric mean of the
\* returns, annualised with frequency = 252.
MeanHistoricalReturn(table) ==
    LET rets == ReturnsOf(table)
    IN  [i \in Assets |->
            PowMinus1(ProdOnePlus(rets[i]),
                      FDiv(Num(Frequency, 1), Num(Count(rets[i]), 1)))]

\* risk_models.sample_cov(df): returns.cov() * 252.
SampleCov(table) ==
    LET rets == ReturnsOf(table)
    IN  [i \in Assets |-> [j \in Assets |->
            FMul(Cov(rets[i], rets[j]), Num(Frequency, 1))]]

\* ----------------------------------------------------- the library's optimiser
\* np.sqrt(x), kept as its radicand.
Sqrt(x) == [rad |-> x]

\* q / sigma for sigma = sqrt(rad), kept as numerator and radicand; numpy
\* gives +-inf for a division by zero and NaN for 0/0.
OverSqrt(q, sigma) ==
    IF ~(IsNum(q) /\ IsNum(sigma.rad)) THEN [k |-> "nan", num |-> Zero, rad |-> One]
    ELSE IF sigma.rad # Zero THEN [k |-> "num", num |-> q, rad |-> sigma.rad]
    ELSE IF q.n > 0 THEN [k |-> "inf", num |-> Zero, rad |-> One]
    ELSE IF q.n < 0 THEN [k |-> "ninf", num |-> Zero, rad |-> One]
    ELSE [k |-> "nan", num |-> Zero, rad |-> One]

\* (q / sqrt(rad)) * sqrt(rad'), defined when the two radicands agree.
TimesSqrt(s, sigma) ==
    IF s.k = "num" /\ s.rad = sigma.rad THEN s.num ELSE NaN

\* a >= b for two floats of the form q / sqrt(rad), as IEEE-754 compares them:
\* every comparison with NaN is false.
SharpeGE(a, b) ==
    IF a.k = "nan" \/ b.k = "nan" THEN FALSE
    ELSE IF a.k = "inf" \/ b.k = "ninf" THEN TRUE
    ELSE IF a.k = "ninf" \/ b.k = "inf" THEN FALSE
    ELSE LET l == FMul(FMul(a.num, a.num), b.rad)
             r == FMul(FMul(b.num, b.num), a.rad)
         IN  IF a.num.n >= 0 /\ b.num.n < 0 THEN TRUE
             ELSE IF a.num.n < 0 /\ b.num.n >= 0 THEN FALSE
             ELSE IF a.num.n >= 0 THEN FLe(r, l)
             ELSE FLe(l, r)

\* sqrt(a) <= sqrt(b) for two non-negative radicands.
SqrtLE(a, b) == FLe(a.rad, b.rad)

\* A risk-free rate of zero.
RiskFreeRateZero == Num(0, 100)

\* The risk-free rate that max_sharpe() and portfolio_performance() use when
\* the caller passes none: the library's default, 0.02.
RiskFreeRate == Num(2, 100)

\* Bounds that allow short positions and leverage.
WeightBoundsShort == <<-1, 2>>

\* EfficientFrontier's default weight_bounds=(0, 1).
WeightBounds == <<0, 1>>

\* The solver's answers are taken on the grid of weights k/Grid, which
\* contains the equal-weight vector and the single-asset portfolios.
Grid == N * GridK

\* The feasible set of both objectives: every weight within the bounds, the
\* weights summing to 1.
Feasible ==
    {w \in [Assets -> {Num(k, Grid) :
                          k \in WeightBounds[1] * Grid .. WeightBounds[2] * Grid}] :
        SumOver(w, Assets) = One}

\* EfficientFrontier(miu, sample_cov_matrix)
EfficientFrontier(mu, cov) ==
    [mu |-> mu, cov |-> cov, weights |-> NoVector, solved |-> "none"]

\* The feasible weights of greatest variance.
MaxVolatility(ef) ==
    LET variances == {PortVar(w, ef.cov) : w \in Feasible}
        most == CHOOSE x \in variances : \A y \in variances : FLe(y, x)
    IN  {w \in Feasible : PortVar(w, ef.cov) = most}

\* The weights of least variance among the feasible weights that return at
\* least what the equal-weight portfolio returns.
MinVolatilityAtReturn(ef) ==
    LET cands == {w \in Feasible : FLe(Dot(EqualWeights, ef.mu), Dot(w, ef.mu))}
        variances == {PortVar(w, ef.cov) : w \in cands}
        least == CHOOSE x \in variances : \A y \in variances : FLe(x, y)
    IN  {w \in cands : PortVar(w, ef.cov) = least}

\* min_volatility(): the feasible weights of least variance w' Sigma w (any
\* one of them when several attain the minimum).
MinVolatility(ef) ==
    LET variances == {PortVar(w, ef.cov) : w \in Feasible}
        least == CHOOSE x \in variances : \A y \in variances : FLe(x, y)
    IN  {w \in Feasible : PortVar(w, ef.cov) = least}

\* The Sharpe ratio of weights w: (w.mu - rf) / sqrt(w' Sigma w).
SharpeOf(w, mu, cov, rf) == OverSqrt(FSub(Dot(w, mu), rf), Sqrt(PortVar(w, cov)))

\* The feasible weights of greatest expected return, whatever their risk.
MaxReturn(ef, rf) ==
    LET cands == {w \in Feasible : FLt(rf, Dot(w, ef.mu))}
    IN  {w \in cands : \A v \in cands : FLe(Dot(v, ef.mu), Dot(w, ef.mu))}

\* The feasible weights of greatest Sharpe ratio, whatever the sign of their
\* excess return (every feasible weight when no Sharpe ratio is defined): an
\* optimiser that always returns weights.
MaxSharpeAnyExcess(ef, rf) ==
    LET cands == {w \in Feasible : SharpeOf(w, ef.mu, ef.cov, rf).k # "nan"}
    IN  IF cands = {} THEN Feasible
        ELSE {w \in cands : \A v \in cands :
                 SharpeGE(SharpeOf(w, ef.mu, ef.cov, rf),
                          SharpeOf(v, ef.mu, ef.cov, rf))}

\* An optimiser that falls back to the equal weights when no feasible
\* weights have a positive excess return.
MaxSharpeOrEqualWeights(ef, rf) ==
    LET cands == {w \in Feasible : FLt(rf, Dot(w, ef.mu))}
    IN  IF cands = {} THEN {EqualWeights}
        ELSE {w \in cands : \A v \in cands :
                 SharpeGE(SharpeOf(w, ef.mu, ef.cov, rf),
                          SharpeOf(v, ef.mu, ef.cov, rf))}

\* max_sharpe(risk_free_rate=0.02): the feasible weights of greatest Sharpe
\* ratio among those of positive excess return.  The library's convex
\* reformulation fixes the excess return to 1, so it has no solution (and the
\* call raises) when no asset returns more than the risk-free rate.
MaxSharpe(ef, rf) ==
    LET cands == {w \in Feasible : FLt(rf, Dot(w, ef.mu))}
        ratios == {SharpeOf(w, ef.mu, ef.cov, rf) : w \in cands}
        best == CHOOSE x \in ratios : \A y \in ratios : SharpeGE(x, y)
    IN  {w \in cands : SharpeGE(SharpeOf(w, ef.mu, ef.cov, rf), best)}

\* A report that evaluates the equal weights, whatever weights the instance
\* holds.
PortfolioPerformanceEqualWeights(ef, rf) ==
    LET mu == Dot(EqualWeights, ef.mu)
        sigma == Sqrt(PortVar(EqualWeights, ef.cov))
    IN  [ret |-> mu, vol |-> sigma, sharpe |-> OverSqrt(FSub(mu, rf), sigma)]

\* portfolio_performance(risk_free_rate=0.02): the expected return, the
\* volatility and the Sharpe ratio of the instance's current weights.
PortfolioPerformance(ef, rf) ==
    LET mu == Dot(ef.weights, ef.mu)
        sigma == Sqrt(PortVar(ef.weights, ef.cov))
    IN  [ret |-> mu, vol |-> sigma, sharpe |-> OverSqrt(FSub(mu, rf), sigma)]

\* pd.Series(weights).to_frame() with the columns Ticker and Weight.
WeightsFrame(w) == [i \in Assets |-> [Ticker |-> Universe[i], Weight |-> w[i]]]

\* ------------------------------------------------------------------- state
VARIABLES
    pc,                  \* the next code cell in document order (0: any order)
    ns,                  \* the names bound in the kernel
    hidden,              \* a cell that is not in the saved notebook has run
    error,               \* the exception of the last cell run, or "none"
    df,                  \* the price table
    weights,             \* [kind, w]: an ndarray or the optimiser's dict
    returns,
    compound_returns,
    annual_cov_mat,
    annual_port_var,
    annual_port_return,
    miu,
    sample_cov_matrix,
    efficientfrontier,   \* [mu, cov, weights, solved]
    weights_df,
    out15,               \* the tuple returned by portfolio_performance, In [15]
    out16                \* the tuple returned by portfolio_performance, In [16]

vars == <<pc, ns, hidden, error, df, weights, returns, compound_returns,
          annual_cov_mat, annual_port_var, annual_port_return, miu,
          sample_cov_matrix, efficientfrontier, weights_df, out15, out16>>

dataVars == <<df, returns, compound_returns, annual_cov_mat, annual_port_var,
              annual_port_return, miu, sample_cov_matrix>>
optVars == <<efficientfrontier, weights_df, out15, out16>>

\* Placeholders of the right shape for names that are not bound yet.
NoPowers == [i \in Assets |-> PowMinus1(NaN, NaN)]
NoTerms == WeightedPowers(NoPowers, NoVector)
NoTable == [i \in Assets |-> <<>>]
NoWeights == [kind |-> "none", w |-> NoVector]
NoFrontier == [mu |-> NoVector, cov |-> NoMatrix, weights |-> NoVector,
               solved |-> "none"]
NoReport == [ret |-> NaN, vol |-> Sqrt(NaN), sharpe |-> OverSqrt(NaN, Sqrt(NaN))]

\* ------------------------------------------------------ the price provider
\* A column of T rows: only the oldest entries may be absent (the newest one
\* is always there), every price that is present is positive.
Columns(T) ==
    {[t \in 1..T |-> IF t <= lead THEN NaN ELSE Num(p[t], 1)] :
        lead \in 0..T - 1, p \in [1..T -> 1..MaxPrice]}

PriceTables == UNION {[Assets -> Columns(T)] : T \in 1..MaxRows}

\* --------------------------------------------------------- part 1: the cells
\* The code cells of part 1 in document order.
CellImports == 1
CellUniverse == 2
CellWeights == 3
CellFetch == 4
CellReturns == 5
CellNaCheck == 6
CellSize == 7
CellPortVar == 8
CellCovMat == 9
CellPortReturn == 10
CellImportsOpt == 11
CellEstimates == 12

\* A cell that reads an unbound name raises NameError and binds nothing.
Raise(e) ==
    /\ error' = e
    /\ UNCHANGED <<ns, weights, dataVars, optVars>>

Step(cell) == pc = cell /\ pc' = cell + 1 /\ UNCHANGED hidden

\* In [1]: import pandas as pd, numpy as np, pandas_datareader as web
Cell_In1_Imports ==
    /\ Step(CellImports)
    /\ ns' = ns \cup {"pd", "np", "web"}
    /\ error' = "none"
    /\ UNCHANGED <<weights, dataVars, optVars>>

\* In [2]: universe = [...]
Cell_In2_Universe ==
    /\ Step(CellUniverse)
    /\ ns' = ns \cup {"universe"}
    /\ error' = "none"
    /\ UNCHANGED <<weights, dataVars, optVars>>

\* In [ ]: weights = np.full(len(universe), 1/len(universe))
Cell_Weights ==
    /\ Step(CellWeights)
    /\ IF {"np", "universe"} \subseteq ns
       THEN /\ weights' = [kind |-> "ndarray", w |-> EqualWeights]
            /\ ns' = ns \cup {"weights"}
            /\ error' = "none"
            /\ UNCHANGED <<dataVars, optVars>>
       ELSE Raise("NameError")

\* The cell that bound df (df = pd.DataFrame()) is not in the saved notebook:
\* the execution counts jump from 2 to 5.  It can run only in a live session.
Unsaved_DefineDf ==
    /\ pc \in CellImports + 1 .. CellFetch
    /\ "df" \notin ns
    /\ "pd" \in ns
    /\ hidden' = TRUE
    /\ df' = NoTable
    /\ ns' = ns \cup {"df"}
    /\ error' = "none"
    /\ UNCHANGED <<pc, weights, returns, compound_returns, annual_cov_mat,
                   annual_port_var, annual_port_return, miu,
                   sample_cov_matrix, optVars>>

\* In [5]: for i in universe: df[i] = web.DataReader(i, ...)['Adj Close']
Cell_In5_Fetch ==
    /\ Step(CellFetch)
    /\ IF {"universe", "web", "df"} \subseteq ns
       THEN /\ \E table \in PriceTables : df' = table
            /\ error' = "none"
            /\ UNCHANGED <<ns, weights, returns, compound_returns,
                           annual_cov_mat, annual_port_var,
                           annual_port_return, miu, sample_cov_matrix, optVars>>
       ELSE Raise("NameError")

\* In [6]: returns = df.pct_change()
\*         compound_returns = (1+returns).prod()**(size/3/count) - 1
Cell_In6_Returns ==
    /\ Step(CellReturns)
    /\ IF "df" \in ns
       THEN /\ returns' = ReturnsOf(df)
            /\ compound_returns' = CompoundReturns(ReturnsOf(df))
            /\ ns' = ns \cup {"returns", "compound_returns"}
            /\ error' = "none"
            /\ UNCHANGED <<weights, df, annual_cov_mat, annual_port_var,
                           annual_port_return, miu, sample_cov_matrix, optVars>>
       ELSE Raise("NameError")

\* In [7]: filt = returns['AMZN'].isna(); returns['AMZN'].loc[filt]
Cell_In7_NaCheck ==
    /\ Step(CellNaCheck)
    /\ IF "returns" \in ns
       THEN /\ ns' = ns \cup {"filt"}
            /\ error' = "none"
            /\ UNCHANGED <<weights, dataVars, optVars>>
       ELSE Raise("NameError")

\* In [8]: returns['AMZN'].size
Cell_In8_Size ==
    /\ Step(CellSize)
    /\ IF "returns" \in ns
       THEN /\ error' = "none"
            /\ UNCHANGED <<ns, weights, dataVars, optVars>>
       ELSE Raise("NameError")

\* The two statements of In [9], given the value of
\* returns.cov()*returns['AMZN'].size/3.  weights.T exists on an ndarray only.
PortVarCell(cov) ==
    IF "weights" \notin ns
    THEN /\ annual_cov_mat' = cov
         /\ ns' = ns \cup {"annual_cov_mat"}
         /\ error' = "NameError"
         /\ UNCHANGED <<weights, df, returns, compound_returns,
                        annual_port_var, annual_port_return, miu,
                        sample_cov_matrix, optVars>>
    ELSE IF weights.kind # "ndarray"
    THEN /\ annual_cov_mat' = cov
         /\ ns' = ns \cup {"annual_cov_mat"}
         /\ error' = "AttributeError"
         /\ UNCHANGED <<weights, df, returns, compound_returns,
                        annual_port_var, annual_port_return, miu,
                        sample_cov_matrix, optVars>>
    ELSE /\ annual_cov_mat' = cov
         /\ annual_port_var' = PortVar(weights.w, cov)
         /\ ns' = ns \cup {"annual_cov_mat", "annual_port_var"}
         /\ error' = "none"
         /\ UNCHANGED <<weights, df, returns, compound_returns,
                        annual_port_return, miu, sample_cov_matrix, optVars>>

\* In [9]: annual_cov_mat = returns.cov()*returns['AMZN'].size/3
\*         annual_port_var = np.dot(weights.T, np.dot(annual_cov_mat, weights))
Cell_In9_PortVar ==
    /\ Step(CellPortVar)
    /\ IF "returns" \in ns
       THEN PortVarCell(AnnualCovMat(returns))
       ELSE Raise("NameError")

\* In [10]: annual_cov_mat = returns.cov()*returns['AMZN'].size/3
Cell_In10_CovMat ==
    /\ Step(CellCovMat)
    /\ IF "returns" \in ns
       THEN /\ annual_cov_mat' = AnnualCovMat(returns)
            /\ ns' = ns \cup {"annual_cov_mat"}
            /\ error' = "none"
            /\ UNCHANGED <<weights, df, returns, compound_returns,
                           annual_port_var, annual_port_return, miu,
                           sample_cov_matrix, optVars>>
       ELSE Raise("NameError")

\* The statement of In [11], given the weighted sum it evaluates.  A pandas
\* Series cannot be multiplied by a dict.
PortReturnCell(total) ==
    IF "weights" \notin ns THEN Raise("NameError")
    ELSE IF weights.kind # "ndarray" THEN Raise("TypeError")
    ELSE /\ annual_port_return' = total
         /\ ns' = ns \cup {"annual_port_return"}
         /\ error' = "none"
         /\ UNCHANGED <<weights, df, returns, compound_returns,
                        annual_cov_mat, annual_port_var, miu,
                        sample_cov_matrix, optVars>>

\* In [11]: annual_port_return = (compound_returns*weights).sum()
Cell_In11_PortReturn ==
    /\ Step(CellPortReturn)
    /\ IF "compound_returns" \in ns
       THEN PortReturnCell(WeightedPowers(compound_returns, weights.w))
       ELSE Raise("NameError")

\* In [12]: from pypfopt import EfficientFrontier, risk_models, expected_returns
Cell_In12_Imports ==
    /\ Step(CellImportsOpt)
    /\ ns' = ns \cup {"EfficientFrontier", "risk_models", "expected_returns"}
    /\ error' = "none"
    /\ UNCHANGED <<weights, dataVars, optVars>>

\* In [13]: miu = expected_returns.mean_historical_return(df)
\*          sample_cov_matrix = risk_models.sample_cov(df)
Cell_In13_Estimates ==
    /\ Step(CellEstimates)
    /\ IF {"expected_returns", "risk_models", "df"} \subseteq ns
       THEN /\ miu' = MeanHistoricalReturn(df)
            /\ sample_cov_matrix' = SampleCov(df)
            /\ ns' = ns \cup {"miu", "sample_cov_matrix"}
            /\ error' = "none"
            /\ UNCHANGED <<weights, df, returns, compound_returns,
                           annual_cov_mat, annual_port_var,
                           annual_port_return, optVars>>
       ELSE Raise("NameError")

\* An empty kernel.
Init ==
    /\ pc = CellImports
    /\ ns = {}
    /\ hidden = FALSE
    /\ error = "none"
    /\ df = NoTable
    /\ weights = NoWeights
    /\ returns = NoTable
    /\ compound_returns = NoPowers
    /\ annual_cov_mat = NoMatrix
    /\ annual_port_var = NaN
    /\ annual_port_return = NoTerms
    /\ miu = NoPowers
    /\ sample_cov_matrix = NoMatrix
    /\ efficientfrontier = NoFrontier
    /\ weights_df = <<>>
    /\ out15 = NoReport
    /\ out16 = NoReport

Next ==
    \/ Cell_In1_Imports
    \/ Cell_In2_Universe
    \/ Cell_Weights
    \/ Unsaved_DefineDf
    \/ Cell_In5_Fetch
    \/ Cell_In6_Returns
    \/ Cell_In7_NaCheck
    \/ Cell_In8_Size
    \/ Cell_In9_PortVar
    \/ Cell_In10_CovMat
    \/ Cell_In11_PortReturn
    \/ Cell_In12_Imports
    \/ Cell_In13_Estimates

Spec == Init /\ [][Next]_vars

\* --------------------------------------------------------- part 2: the cells
\* The estimates of a price table on which the hand computation and the
\* library agree (three years of 252 rows, as in the recorded run), in steps
\* of 2% for the expected returns; Sigma is symmetric positive semi-definite.
MuVectors == [Assets -> {Num(2 * k, 100) : k \in -1..MaxMu}]

CovMatrices ==
    {m \in [Assets -> [Assets -> {Num(k, 1) : k \in -MaxCov..MaxCov}]] :
        /\ \A i, j \in Assets : m[i][j] = m[j][i]
        /\ \A i \in Assets : m[i][i].n >= 0
        /\ \A i, j \in Assets :
              m[i][j].n * m[i][j].n <= m[i][i].n * m[j][j].n}

\* The kernel of a live session after the cells of part 1 and In [12],
\* In [13] have run in document order: the estimates and the equal-weight
\* statistics are bound.  From here cells are run in any order.
InitOpt ==
    /\ pc = 0
    /\ hidden = TRUE
    /\ error = "none"
    /\ ns = {"pd", "np", "web", "universe", "weights", "df", "returns",
             "compound_returns", "filt", "annual_cov_mat", "annual_port_var",
             "annual_port_return", "EfficientFrontier", "risk_models",
             "expected_returns", "miu", "sample_cov_matrix"}
    /\ df = NoTable
    /\ returns = NoTable
    /\ weights = [kind |-> "ndarray", w |-> EqualWeights]
    /\ \E mu \in MuVectors, cov \in CovMatrices :
          /\ compound_returns = mu
          /\ miu = mu
          /\ annual_cov_mat = cov
          /\ sample_cov_matrix = cov
          /\ annual_port_var = PortVar(EqualWeights, cov)
          /\ annual_port_return = Dot(mu, EqualWeights)
    /\ efficientfrontier = NoFrontier
    /\ weights_df = <<>>
    /\ out15 = NoReport
    /\ out16 = NoReport

Live == pc = 0 /\ UNCHANGED <<pc, hidden>>

\* In [9] run again: returns is unchanged, so returns.cov()*size/3 is the
\* value annual_cov_mat already holds.
Rerun_In9_PortVar ==
    /\ Live
    /\ PortVarCell(annual_cov_mat)

\* In [11] run again.
Rerun_In11_PortReturn ==
    /\ Live
    /\ PortReturnCell(Dot(compound_returns, weights.w))

\* In [14]: efficientfrontier = EfficientFrontier(miu, sample_cov_matrix)
Cell_In14_Frontier ==
    /\ Live
    /\ efficientfrontier' = EfficientFrontier(miu, sample_cov_matrix)
    /\ ns' = ns \cup {"efficientfrontier"}
    /\ error' = "none"
    /\ UNCHANGED <<weights, dataVars, weights_df, out15, out16>>

\* In [15]: weights = efficientfrontier.min_volatility()
\*          weights_df = pd.Series(weights).to_frame() ...
\*          efficientfrontier.portfolio_performance(verbose=True)
Cell_In15_MinVol ==
    /\ Live
    /\ IF "efficientfrontier" \notin ns THEN Raise("NameError")
       ELSE \E w \in MinVolatility(efficientfrontier) :
            LET ef == [efficientfrontier EXCEPT !.weights = w,
                                                !.solved = "min_volatility"]
            IN  /\ efficientfrontier' = ef
                /\ weights' = [kind |-> "dict", w |-> w]
                /\ weights_df' = WeightsFrame(w)
                /\ out15' = PortfolioPerformance(ef, RiskFreeRate)
                /\ ns' = ns \cup {"weights_df"}
                /\ error' = "none"
                /\ UNCHANGED <<dataVars, out16>>

\* In [16]: weights = efficientfrontier.max_sharpe()
\*          weights_df = pd.Series(weights).to_frame() ...
\*          efficientfrontier.portfolio_performance(verbose=True)
Cell_In16_MaxSharpe ==
    /\ Live
    /\ IF "efficientfrontier" \notin ns THEN Raise("NameError")
       ELSE LET sols == MaxSharpe(efficientfrontier, RiskFreeRate)
            IN  IF sols = {} THEN Raise("OptimizationError")
                ELSE \E w \in sols :
            LET ef == [efficientfrontier EXCEPT !.weights = w,
                                                !.solved = "max_sharpe"]
            IN  /\ efficientfrontier' = ef
                /\ weights' = [kind |-> "dict", w |-> w]
                /\ weights_df' = WeightsFrame(w)
                /\ out16' = PortfolioPerformance(ef, RiskFreeRate)
                /\ ns' = ns \cup {"weights_df"}
                /\ error' = "none"
                /\ UNCHANGED <<dataVars, out15>>

NextOpt ==
    \/ Rerun_In9_PortVar
    \/ Rerun_In11_PortReturn
    \/ Cell_In14_Frontier
    \/ Cell_In15_MinVol
    \/ Cell_In16_MaxSharpe

SpecOpt == InitOpt /\ [][NextOpt]_vars


\* ================================================================== claims
\* Reference formulas, written from the definitions of the quantities.
SumOfProducts(mu, w) == SumOver([i \in Assets |-> FMul(mu[i], w[i])], Assets)
QuadraticForm(w, cov) ==
    SumOver([p \in Assets \X Assets |-> FMul(FMul(w[p[1]], w[p[2]]), cov[p[1]][p[2]])],
            Assets \X Assets)
TwoPercent == Num(2, 100)
Reported(out) == out # NoReport

\* C1: every weight vector in the kernel under the default constraints (the
\* equal-weight vector, the dict either objective returns, the weights the
\* EfficientFrontier instance holds) sums to 1 and has every weight in [0, 1].
FullyInvestedLongOnly(w) ==
    /\ SumOver(w, Assets) = One
    /\ \A i \in Assets : FLe(Zero, w[i]) /\ FLe(w[i], One)
IsEvaluationOf(out, w) ==
    QuadraticForm(w, sample_cov_matrix) # Zero =>
        /\ out.ret = SumOfProducts(miu, w)
        /\ out.vol = [rad |-> QuadraticForm(w, sample_cov_matrix)]
        /\ out.sharpe = [k |-> "num",
                         num |-> FSub(SumOfProducts(miu, w), RiskFreeRate),
                         rad |-> QuadraticForm(w, sample_cov_matrix)]
C3_EvaluateIsExact ==
    /\ efficientfrontier.solved = "min_volatility" =>
          IsEvaluationOf(out15, efficientfrontier.weights)
    /\ efficientfrontier.solved = "max_sharpe" =>
          IsEvaluationOf(out16, efficientfrontier.weights)
    /\ annual_port_return = SumOfProducts(compound_returns, EqualWeights)
    /\ annual_port_var = QuadraticForm(EqualWeights, annual_cov_mat)
C3_Witness ==
    /\ efficientfrontier.solved = "min_volatility"
    /\ out15.sharpe.k = "num"
    /\ sample_cov_matrix[1][2] # Zero
    /\ error = "none"

EqualWeightSharpe == SharpeOf(EqualWeights, miu, sample_cov_matrix, RiskFreeRate)
FirstValid(col) == CHOOSE t \in Valid(col) : \A u \in Valid(col) : t <= u
GrowthOf(col) ==
    IF Valid(col) = {} THEN One ELSE FDiv(col[Len(col)], col[FirstValid(col)])
\* The sample covariance of two return series over the rows where both are
\* defined: (sum xy - (sum x)(sum y)/n) / (n - 1).
SampleCovariance(x, y) ==
    LET both == Valid(x) \cap Valid(y)
        n == Num(Cardinality(both), 1)
        sxy == SumOver([t \in both |-> FMul(x[t], y[t])], both)
        sx == SumOver(x, both)
        sy == SumOver(y, both)
    IN  IF Cardinality(both) < 2 THEN NaN
        ELSE FDiv(FSub(sxy, FDiv(FMul(sx, sy), n)), FSub(n, One))
DefinedReturns(i) == Num(Count(returns[i]), 1)

\* C7: for every asset with at least one return, mu_i is
\* (product of (1 + r))^(252 / observed_periods) - 1, whatever the number of
\* rows of the table.
C7_AnnualisesWith252 ==
    "compound_returns" \in ns =>
        \A i \in Assets :
            Count(returns[i]) >= 1 =>
                SamePower(compound_returns[i],
                          PowMinus1(GrowthOf(df[i]),
                                    FDiv(Num(252, 1), DefinedReturns(i))))

\* C8: Sigma_ij is 252 times the sample covariance (n - 1 denominator) of the
\* return series of assets i and j, whatever the number of rows of the table.
C8_CovarianceAnnualisedBy252 ==
    "annual_cov_mat" \in ns =>
        \A i, j \in Assets :
            annual_cov_mat[i][j] =
                FMul(Num(252, 1), SampleCovariance(returns[i], returns[j]))

\* C9: the undefined first return enters no statistic: the product, the
\* observation count, the covariance sample and the period count of the
\* annualisation are all taken over the defined returns only.
C9_FirstReturnExcluded ==
    /\ "compound_returns" \in ns =>
          \A i \in Assets :
              Count(returns[i]) >= 1 =>
                  SamePower(compound_returns[i],
                            PowMinus1(GrowthOf(df[i]),
                                      FDiv(FDiv(DefinedReturns(AMZN), Num(3, 1)),
                                           DefinedReturns(i))))
    /\ "annual_cov_mat" \in ns =>
          \A i, j \in Assets :
              annual_cov_mat[i][j] =
                  FDiv(FMul(SampleCovariance(returns[i], returns[j]),
                            DefinedReturns(AMZN)),
                       Num(3, 1))

\* C10: when some asset has fewer than 2 valid prices the estimators fail
\* with InsufficientDataError and bind no mu and no Sigma.
InsufficientData == df # NoTable /\ \E i \in Assets : Count(df[i]) < 2
C10_InsufficientDataRaises ==
    InsufficientData =>
        /\ {"compound_returns", "annual_cov_mat", "miu", "sample_cov_matrix"}
              \cap ns = {}
        /\ pc > CellReturns => error = "InsufficientDataError"

\* A table with exactly two observations of every asset (one return each).
TwoObservations ==
    /\ df # NoTable
    /\ \A i \in Assets : Len(df[i]) = 2 /\ Count(df[i]) = 2
FinitePower(p) == IsNum(p.base) /\ IsNum(p.exp)
\* Every entry a number and every 2 x 2 minor zero.
FiniteOfRankAtMostOne(m) ==
    /\ \A i, j \in Assets : IsNum(m[i][j])
    /\ \A i, j, k, l \in Assets :
          FMul(m[i][k], m[j][l]) = FMul(m[i][l], m[j][k])

\* C11: from a table with exactly 2 observations per asset, every mu_i and
\* every Sigma_ij (hand-computed and the library's) is a finite number and
\* Sigma has rank at most 1.
C11_TwoRowTableGivesValidEstimates ==
    TwoObservations =>
        /\ "compound_returns" \in ns =>
              \A i \in Assets : FinitePower(compound_returns[i])
        /\ "annual_cov_mat" \in ns => FiniteOfRankAtMostOne(annual_cov_mat)
        /\ "miu" \in ns => \A i \in Assets : FinitePower(miu[i])
        /\ "sample_cov_matrix" \in ns => FiniteOfRankAtMostOne(sample_cov_matrix)

\* The least value of w' Sigma w over the feasible weights: a function of
\* Sigma and the constraints alone.
LeastVariance(cov) ==
    LET values == {QuadraticForm(w, cov) : w \in Feasible}
    IN  CHOOSE x \in values : \A y \in values : FLe(x, y)
\* The expected returns with the assets exchanged.
Exchanged(mu) == [i \in Assets |-> mu[N + 1 - i]]

NoAssetAboveRate == \A i \in Assets : ~FLt(TwoPercent, miu[i])

NoExcessAttainable ==
    \A w \in Feasible : ~FLt(TwoPercent, SumOfProducts(miu, w))

C15_ZeroVolatilityRaises ==
    \A out \in {out15, out16} :
        Reported(out) /\ out.vol.rad = Zero =>
            /\ error = "DegenerateVolatilityError"
            /\ out.sharpe.k \notin {"inf", "ninf", "nan"}

\* C16: no shared weight variable is overwritten: the name weights keeps the
\* equal-weight vector after the optimisations, so the equal-weight variance
\* and return cells can be run again after them, without error and with the
\* result they gave before.
C16_WeightsNotOverwritten ==
    /\ weights.kind # "none" =>
          weights = [kind |-> "ndarray", w |-> EqualWeights]
    /\ error \notin {"AttributeError", "TypeError"}
    /\ pc = 0 =>
          /\ annual_port_var = QuadraticForm(EqualWeights, annual_cov_mat)
          /\ annual_port_return = SumOfProducts(compound_returns, EqualWeights)

\* C19: for the same price table the hand-computed estimates equal the
\* library's: compound_returns is mean_historical_return(df) for every asset
\* and annual_cov_mat is sample_cov(df) for every pair of assets.
C19_HandEstimatesEqualLibrary ==
    {"compound_returns", "annual_cov_mat", "miu", "sample_cov_matrix"}
        \subseteq ns =>
        /\ \A i \in Assets :
              Count(returns[i]) >= 1 => SamePower(compound_returns[i], miu[i])
        /\ \A i, j \in Assets :
              IsNum(sample_cov_matrix[i][j]) =>
                  annual_cov_mat[i][j] = sample_cov_matrix[i][j]

\* C20: the saved code cells, run once each from top to bottom in an empty
\* kernel, never read a name that no earlier cell has bound.
C20_NoReadBeforeAssignment ==
    ~hidden => error # "NameError"

\* The report out gives the expected return and the variance of the weights
\* w over (miu, sample_cov_matrix), and their Sharpe ratio over 0.02 where
\* the variance is not zero.
Describes(out, w) ==
    /\ out.ret = SumOfProducts(miu, w)
    /\ out.vol.rad = QuadraticForm(w, sample_cov_matrix)
    /\ QuadraticForm(w, sample_cov_matrix) # Zero =>
          /\ out.sharpe.k = "num"
          /\ out.sharpe.num = FSub(SumOfProducts(miu, w), TwoPercent)
          /\ out.sharpe.rad = QuadraticForm(w, sample_cov_matrix)
\* The cell that wrote the report out bound the weights w of the objective
\* it names, printed them and left them in the instance.
ProducedAndReported(out, objective) ==
    /\ efficientfrontier'.solved = objective
    /\ weights' = [kind |-> "dict", w |-> efficientfrontier'.weights]
    /\ weights_df' = [i \in Assets |->
                         [Ticker |-> Universe[i],
                          Weight |-> efficientfrontier'.weights[i]]]
    /\ Describes(out, efficientfrontier'.weights)

\* C21: the statistics an optimisation cell reports are those of the weights
\* the same cell has just produced: whenever In [15] writes a report it is
\* the report of the min_volatility weights the cell bound and printed,
\* whenever In [16] writes one it is that of the max_sharpe weights, and
\* while the instance holds the weights of an objective the report of that
\* objective describes them.
C21_ReportDescribesOwnWeights ==
    /\ [](/\ efficientfrontier.solved = "min_volatility" =>
                Reported(out15) /\ Describes(out15, efficientfrontier.weights)
          /\ efficientfrontier.solved = "max_sharpe" =>
                Reported(out16) /\ Describes(out16, efficientfrontier.weights))
    /\ [][/\ out15' # out15 => ProducedAndReported(out15', "min_volatility")
          /\ out16' # out16 => ProducedAndReported(out16', "max_sharpe")]_vars
C21_Witness ==
    /\ efficientfrontier.solved = "max_sharpe"
    /\ Reported(out15)
    /\ out16.ret # out15.ret
    /\ out16.vol # out15.vol
    /\ out16.ret # annual_port_return
    /\ weights.w # EqualWeights

=============================================================================
